---- MODULE Spec2Model ----
(***************************************************************************)
(* The draggable / resizable / maximizable floating window of              *)
(* mini-trade-terminal: the useDraggableWindow hook (hooks/                *)
(* use-draggable-window, kept here as src/unnamed/part_000) and the        *)
(* DraggableWindow component that inlines the same handlers               *)
(* (src/src/components/DraggableWindow.tsx).  The two copies are the same  *)
(* code line for line, so one model stands for both.                       *)
(*                                                                         *)
(* Every React state cell of the hook is one variable.  One action is one  *)
(* delivered DOM event, run to completion: press, release and click are    *)
(* discrete events whose state updates React commits (and whose effect     *)
(* re-subscribes the document listeners) before the next event is          *)
(* delivered, so every handler reads the state left by the previous event. *)
(* Coordinates are integers (pixels); the model draws them from a small    *)
(* grid.                                                                   *)
(***************************************************************************)
EXTENDS Integers, Sequences, FiniteSets, TLC

\* ------------------------------------------------------------------ bounds
\* Largest viewport extent, and largest pointer coordinate, of the grid.
MaxV == 2
\* The configured minimum extent (options minWidth and minHeight), which is
\* also the initial extent of the window.
MinDim == 1
\* Events delivered in one run of the model.
MaxSteps == 4

Coord == 0..MaxV
Extent == 1..MaxV

VARIABLES
  position,      \* useState(initialPosition)          {x, y}
  size,          \* useState(initialSize)              {width, height}
  isDragging,    \* useState(false)
  isResizing,    \* useState(false)
  isMaximized,   \* useState(false)
  dragStart,     \* useState({x: 0, y: 0})             pointer offset in the window
  resizeStart,   \* useState({x: 0, y: 0, width: 0, height: 0})
  prevPosition,  \* useState(initialPosition)          pre-maximize snapshot
  prevSize,      \* useState(initialSize)
  minWidth,      \* option minWidth, fixed at construction
  minHeight,     \* option minHeight, fixed at construction
  innerWidth,    \* window.innerWidth, read at event time
  innerHeight,   \* window.innerHeight
  mounted,       \* the component is mounted (its effect cleanup has not run)
  subscribed,    \* the document holds the mousemove and mouseup listeners
  startCount,    \* calls of onDragStart so far
  endCount,      \* calls of onDragEnd so far
  last,          \* history: the event delivered last
  preMax,        \* history: geometry before the maximize that was delivered last
  capped,        \* history: the viewport has cut a size below the minimum
  session,       \* history: the press that began the session under way
  steps          \* history: events delivered so far

prog == <<position, size, isDragging, isResizing, isMaximized, dragStart,
          resizeStart, prevPosition, prevSize>>
config == <<minWidth, minHeight>>
viewport == <<innerWidth, innerHeight>>
notes == <<startCount, endCount>>
history == <<last, preMax, capped, session, steps>>
vars == <<prog, config, viewport, mounted, subscribed, notes, history>>

\* ----------------------------------------------------------------- helpers
Max(a, b) == IF a >= b THEN a ELSE b
Min(a, b) == IF a <= b THEN a ELSE b

Point(px, py) == [x |-> px, y |-> py]
Size(w, h) == [width |-> w, height |-> h]

\* InteractionMode of the specification, read off the two flags.
Mode ==
  IF isDragging /\ isResizing THEN "Both"
  ELSE IF isDragging THEN "Dragging"
  ELSE IF isResizing THEN "Resizing"
  ELSE "Idle"

\* A document mousemove / mouseup reaches the hook's listener.
listening == subscribed

\* The effect after a committed event: the cleanup of the previous run has
\* removed the listeners, and the body adds them again exactly when
\* isDragging || isResizing holds in the state just rendered.
Resubscribed == isDragging' \/ isResizing'

\* (mutant) an effect without a cleanup: the listeners outlive the component.
AfterCleanupLeaks == subscribed

\* The effect's cleanup on unmount: removeEventListener for both listeners.
AfterCleanup == FALSE

\* An event of the history: its name, its pointer position (kept when the
\* event reached a handler that went past its early return), the mode and
\* isMaximized it met, whether it reached a handler that went past its early
\* return, and whether the event before it was a release that reached
\* handleMouseUp.
NoEvent ==
  [op |-> "none", ptr |-> Point(0, 0), mode |-> "Idle", maxd |-> FALSE,
   acted |-> FALSE, afterUp |-> FALSE]
Event(name, cx, cy, acted) ==
  [op |-> name, ptr |-> IF acted THEN Point(cx, cy) ELSE Point(0, 0),
   mode |-> Mode, maxd |-> isMaximized,
   acted |-> acted, afterUp |-> (last.op = "up" /\ last.acted)]
NoGeom == [set |-> FALSE, position |-> Point(0, 0), size |-> Size(0, 0)]

\* The session of the history: the press that began it (kind "drag" for a
\* press on the header, "resize" for one on the resize handle), the pointer
\* position of that press, the position and size of the window at that
\* press, whether nothing but pointer moves followed a press that met the
\* mode Idle, and how many of these moves were processed (2 stands for two
\* or more).  The pointer and window position of a header press are kept for
\* as long as its drag lasts.
NoSession ==
  [kind |-> "none", ptr |-> Point(0, 0), position |-> Point(0, 0),
   size |-> Size(0, 0), pure |-> FALSE, moves |-> 0]
Began(kind, cx, cy) ==
  [kind |-> kind, ptr |-> Point(cx, cy), position |-> position,
   size |-> size, pure |-> (Mode = "Idle"), moves |-> 0]
Interrupted ==
  IF session.kind = "drag"
  THEN [session EXCEPT !.size = Size(0, 0), !.pure = FALSE, !.moves = 0]
  ELSE NoSession
Moved ==
  IF session.pure
  THEN [session EXCEPT !.moves = Min(session.moves + 1, 2)]
  ELSE session

\* -------------------------------------------------------------------- Init
Init ==
  /\ minWidth = MinDim
  /\ minHeight = MinDim
  /\ position = Point(1, 1)
  /\ size = Size(MinDim, MinDim)
  /\ isDragging = FALSE
  /\ isResizing = FALSE
  /\ isMaximized = FALSE
  /\ dragStart = Point(0, 0)
  /\ resizeStart = [x |-> 0, y |-> 0, width |-> 0, height |-> 0]
  /\ prevPosition = position
  /\ prevSize = size
  /\ innerWidth = MaxV
  /\ innerHeight = MaxV
  /\ mounted = TRUE
  /\ subscribed = FALSE
  /\ startCount = 0
  /\ endCount = 0
  /\ last = NoEvent
  /\ preMax = NoGeom
  /\ capped = FALSE
  /\ session = NoSession
  /\ steps = 0

\* One more event is delivered: the history moves on.
Record(name, cx, cy, acted) ==
  /\ steps < MaxSteps
  /\ steps' = steps + 1
  /\ last' = Event(name, cx, cy, acted)

\* ---------------------------------------------------- handleMouseMove parts
\* (mutant) the clamp without its lower bound.
ClampDragNoFloor(candidate, upper) == Min(candidate, upper)

\* Math.max(0, Math.min(candidate, upper)): one coordinate of a dragged window.
ClampDrag(candidate, upper) == Max(0, Min(candidate, upper))

\* maxY = window.innerHeight - (isMaximized ? 0 : size.height)
DragMaxY == innerHeight - (IF isMaximized THEN 0 ELSE size.height)

\* maxX = window.innerWidth - size.width
DragMaxX == innerWidth - size.width

\* (mutant) the viewport cap applied first and the minimum last.
ResizeDimCapFirst(minimum, start, delta, cap) ==
  Max(minimum, Min(start + delta, cap))

\* (mutant) no minimum at all.
ResizeDimNoFloor(minimum, start, delta, cap) == Min(start + delta, cap)

\* (mutant) no viewport cap at all.
ResizeDimNoCap(minimum, start, delta, cap) == Max(minimum, start + delta)

\* Math.min(Math.max(minimum, start + delta), cap): one extent of a resized
\* window: the minimum is applied first, the viewport cap last.
ResizeDim(minimum, start, delta, cap) == Min(Max(minimum, start + delta), cap)

\* (mutant) two independent ifs instead of if / else if: with both flags set
\* one move changes the position and the size.
handleMouseMoveBothBranches(cx, cy) ==
  IF isDragging /\ isResizing
  THEN /\ position' = Point(ClampDrag(cx - dragStart.x, DragMaxX),
                            ClampDrag(cy - dragStart.y, DragMaxY))
       /\ size' = Size(ResizeDim(minWidth, resizeStart.width,
                                 cx - resizeStart.x, innerWidth - position.x),
                       ResizeDim(minHeight, resizeStart.height,
                                 cy - resizeStart.y, innerHeight - position.y))
       /\ UNCHANGED <<isDragging, isResizing, isMaximized, dragStart,
                      resizeStart, prevPosition, prevSize>>
  ELSE IF isDragging
  THEN /\ position' = Point(ClampDrag(cx - dragStart.x, DragMaxX),
                            ClampDrag(cy - dragStart.y, DragMaxY))
       /\ UNCHANGED <<size, isDragging, isResizing, isMaximized, dragStart,
                      resizeStart, prevPosition, prevSize>>
  ELSE IF isResizing
  THEN /\ size' = Size(ResizeDim(minWidth, resizeStart.width,
                                 cx - resizeStart.x, innerWidth - position.x),
                       ResizeDim(minHeight, resizeStart.height,
                                 cy - resizeStart.y, innerHeight - position.y))
       /\ UNCHANGED <<position, isDragging, isResizing, isMaximized, dragStart,
                      resizeStart, prevPosition, prevSize>>
  ELSE UNCHANGED prog

\* (mutant) a clamp that throws on an inverted range: a drag move has no
\* outcome when the window is larger than the viewport.
handleMouseMoveRejectsInvertedRange(cx, cy) ==
  IF isDragging
  THEN /\ DragMaxX >= 0
       /\ DragMaxY >= 0
       /\ position' = Point(ClampDrag(cx - dragStart.x, DragMaxX),
                            ClampDrag(cy - dragStart.y, DragMaxY))
       /\ UNCHANGED <<size, isDragging, isResizing, isMaximized, dragStart,
                      resizeStart, prevPosition, prevSize>>
  ELSE IF isResizing
  THEN /\ size' = Size(ResizeDim(minWidth, resizeStart.width,
                                 cx - resizeStart.x, innerWidth - position.x),
                       ResizeDim(minHeight, resizeStart.height,
                                 cy - resizeStart.y, innerHeight - position.y))
       /\ UNCHANGED <<position, isDragging, isResizing, isMaximized, dragStart,
                      resizeStart, prevPosition, prevSize>>
  ELSE UNCHANGED prog

\* (mutant) the resize is capped at the viewport extent, not at what the
\* viewport leaves beyond the window's corner.
handleMouseMoveCapsAtViewport(cx, cy) ==
  IF isDragging
  THEN /\ position' = Point(ClampDrag(cx - dragStart.x, DragMaxX),
                            ClampDrag(cy - dragStart.y, DragMaxY))
       /\ UNCHANGED <<size, isDragging, isResizing, isMaximized, dragStart,
                      resizeStart, prevPosition, prevSize>>
  ELSE IF isResizing
  THEN /\ size' = Size(ResizeDim(minWidth, resizeStart.width,
                                 cx - resizeStart.x, innerWidth),
                       ResizeDim(minHeight, resizeStart.height,
                                 cy - resizeStart.y, innerHeight))
       /\ UNCHANGED <<position, isDragging, isResizing, isMaximized, dragStart,
                      resizeStart, prevPosition, prevSize>>
  ELSE UNCHANGED prog

\* (mutant) cumulative moves: each move adds the pointer's offset from the
\* anchor to the position, or to the size, the move before it left.
handleMouseMoveCumulative(cx, cy) ==
  IF isDragging
  THEN /\ position' = Point(ClampDrag(position.x + (cx - dragStart.x),
                                      DragMaxX),
                            ClampDrag(position.y + (cy - dragStart.y),
                                      DragMaxY))
       /\ UNCHANGED <<size, isDragging, isResizing, isMaximized, dragStart,
                      resizeStart, prevPosition, prevSize>>
  ELSE IF isResizing
  THEN /\ size' = Size(ResizeDim(minWidth, size.width,
                                 cx - resizeStart.x, innerWidth - position.x),
                       ResizeDim(minHeight, size.height,
                                 cy - resizeStart.y, innerHeight - position.y))
       /\ UNCHANGED <<position, isDragging, isResizing, isMaximized, dragStart,
                      resizeStart, prevPosition, prevSize>>
  ELSE UNCHANGED prog

\* The document's mousemove listener, pointer at (cx, cy).
handleMouseMove(cx, cy) ==
  IF isDragging
  THEN /\ position' = Point(ClampDrag(cx - dragStart.x, DragMaxX),
                            ClampDrag(cy - dragStart.y, DragMaxY))
       /\ UNCHANGED <<size, isDragging, isResizing, isMaximized, dragStart,
                      resizeStart, prevPosition, prevSize>>
  ELSE IF isResizing
  THEN /\ size' = Size(ResizeDim(minWidth, resizeStart.width,
                                 cx - resizeStart.x, innerWidth - position.x),
                       ResizeDim(minHeight, resizeStart.height,
                                 cy - resizeStart.y, innerHeight - position.y))
       /\ UNCHANGED <<position, isDragging, isResizing, isMaximized, dragStart,
                      resizeStart, prevPosition, prevSize>>
  ELSE UNCHANGED prog

\* ------------------------------------------------------------ handleMouseUp
\* (mutant) a release that calls onDragEnd and leaves the dragging flag set.
handleMouseUpKeepsDragging ==
  /\ endCount' = IF isDragging THEN endCount + 1 ELSE endCount
  /\ isResizing' = FALSE
  /\ UNCHANGED <<position, size, isDragging, isMaximized, dragStart,
                 resizeStart, prevPosition, prevSize, startCount>>

\* (mutant) a release that leaves the resizing flag set.
handleMouseUpKeepsResizing ==
  /\ isDragging' = FALSE
  /\ endCount' = IF isDragging THEN endCount + 1 ELSE endCount
  /\ UNCHANGED <<position, size, isResizing, isMaximized, dragStart,
                 resizeStart, prevPosition, prevSize, startCount>>

\* (mutant) a release that calls onDragEnd for a resize as well.
handleMouseUpNotifiesResize ==
  /\ isDragging' = FALSE
  /\ endCount' = IF isDragging \/ isResizing THEN endCount + 1 ELSE endCount
  /\ isResizing' = FALSE
  /\ UNCHANGED <<position, size, isMaximized, dragStart, resizeStart,
                 prevPosition, prevSize, startCount>>

\* (mutant) if / else if instead of two ifs: a release ends one mode only.
handleMouseUpEndsOneMode ==
  /\ isDragging' = FALSE
  /\ endCount' = IF isDragging THEN endCount + 1 ELSE endCount
  /\ isResizing' = (isDragging /\ isResizing)
  /\ UNCHANGED <<position, size, isMaximized, dragStart, resizeStart,
                 prevPosition, prevSize, startCount>>

\* (mutant) a release that also resets the drag anchor.
handleMouseUpClearsAnchor ==
  /\ isDragging' = FALSE
  /\ endCount' = IF isDragging THEN endCount + 1 ELSE endCount
  /\ isResizing' = FALSE
  /\ dragStart' = Point(0, 0)
  /\ UNCHANGED <<position, size, isMaximized, resizeStart,
                 prevPosition, prevSize, startCount>>

\* The document's mouseup listener: each set flag is cleared, and onDragEnd is
\* called when the dragging flag was set.
handleMouseUp ==
  /\ isDragging' = FALSE
  /\ endCount' = IF isDragging THEN endCount + 1 ELSE endCount
  /\ isResizing' = FALSE
  /\ UNCHANGED <<position, size, isMaximized, dragStart, resizeStart,
                 prevPosition, prevSize, startCount>>

\* ---------------------------------------------------- handleHeaderMouseDown
\* (mutant) a header that starts a drag whether maximized or not.
HeaderAcceptsAlways == TRUE

\* if (isMaximized) return;
HeaderAccepts == ~isMaximized

\* (mutant) the anchor is the pointer position itself, not its offset from
\* the window's corner.
handleHeaderMouseDownAbsoluteAnchor(cx, cy) ==
  IF HeaderAccepts
  THEN /\ dragStart' = Point(cx, cy)
       /\ isDragging' = TRUE
       /\ startCount' = startCount + 1
       /\ UNCHANGED <<position, size, isResizing, isMaximized, resizeStart,
                      prevPosition, prevSize, endCount>>
  ELSE UNCHANGED <<prog, notes>>

\* (mutant) a header press that starts the drag without calling onDragStart.
handleHeaderMouseDownSilent(cx, cy) ==
  IF HeaderAccepts
  THEN /\ dragStart' = Point(cx - position.x, cy - position.y)
       /\ isDragging' = TRUE
       /\ UNCHANGED <<position, size, isResizing, isMaximized, resizeStart,
                      prevPosition, prevSize, notes>>
  ELSE UNCHANGED <<prog, notes>>

\* rect = windowRef.current.getBoundingClientRect(): the window is rendered at
\* left = position.x, top = position.y, so rect.left/top are position.x/y.
\* The ref is attached for as long as the component is mounted, so the
\* "if (rect)" test passes whenever the handler can be called.
handleHeaderMouseDown(cx, cy) ==
  IF HeaderAccepts
  THEN /\ dragStart' = Point(cx - position.x, cy - position.y)
       /\ isDragging' = TRUE
       /\ startCount' = startCount + 1
       /\ UNCHANGED <<position, size, isResizing, isMaximized, resizeStart,
                      prevPosition, prevSize, endCount>>
  ELSE UNCHANGED <<prog, notes>>

\* ---------------------------------------------------- handleResizeMouseDown
\* if (isMaximized) return;
ResizeAccepts == ~isMaximized

handleResizeMouseDown(cx, cy) ==
  IF ResizeAccepts
  THEN /\ resizeStart' = [x |-> cx, y |-> cy,
                          width |-> size.width, height |-> size.height]
       /\ isResizing' = TRUE
       /\ UNCHANGED <<position, size, isDragging, isMaximized, dragStart,
                      prevPosition, prevSize>>
  ELSE UNCHANGED prog

\* ----------------------------------------------------------- handleMaximize
\* (mutant) a maximize that does not snapshot the position.
handleMaximizeNoSnapshot ==
  IF isMaximized
  THEN /\ position' = prevPosition
       /\ size' = prevSize
       /\ isMaximized' = FALSE
       /\ UNCHANGED <<isDragging, isResizing, dragStart, resizeStart,
                      prevPosition, prevSize>>
  ELSE /\ prevSize' = size
       /\ position' = Point(0, 0)
       /\ size' = Size(innerWidth, innerHeight)
       /\ isMaximized' = TRUE
       /\ UNCHANGED <<isDragging, isResizing, dragStart, resizeStart,
                      prevPosition>>

\* (mutant) a maximize that takes the viewport's height for the width.
handleMaximizeSwapsViewport ==
  IF isMaximized
  THEN /\ position' = prevPosition
       /\ size' = prevSize
       /\ isMaximized' = FALSE
       /\ UNCHANGED <<isDragging, isResizing, dragStart, resizeStart,
                      prevPosition, prevSize>>
  ELSE /\ prevPosition' = position
       /\ prevSize' = size
       /\ position' = Point(0, 0)
       /\ size' = Size(innerHeight, innerWidth)
       /\ isMaximized' = TRUE
       /\ UNCHANGED <<isDragging, isResizing, dragStart, resizeStart>>

\* (mutant) a restore that clamps the saved position into the viewport.
handleMaximizeClampsRestore ==
  IF isMaximized
  THEN /\ position' = Point(ClampDrag(prevPosition.x,
                                      innerWidth - prevSize.width),
                            ClampDrag(prevPosition.y,
                                      innerHeight - prevSize.height))
       /\ size' = prevSize
       /\ isMaximized' = FALSE
       /\ UNCHANGED <<isDragging, isResizing, dragStart, resizeStart,
                      prevPosition, prevSize>>
  ELSE /\ prevPosition' = position
       /\ prevSize' = size
       /\ position' = Point(0, 0)
       /\ size' = Size(innerWidth, innerHeight)
       /\ isMaximized' = TRUE
       /\ UNCHANGED <<isDragging, isResizing, dragStart, resizeStart>>

\* (mutant) a restore that overwrites the snapshot with the maximized
\* geometry it leaves.
handleMaximizeRestoreResnapshots ==
  IF isMaximized
  THEN /\ position' = prevPosition
       /\ size' = prevSize
       /\ isMaximized' = FALSE
       /\ prevPosition' = position
       /\ prevSize' = size
       /\ UNCHANGED <<isDragging, isResizing, dragStart, resizeStart>>
  ELSE /\ prevPosition' = position
       /\ prevSize' = size
       /\ position' = Point(0, 0)
       /\ size' = Size(innerWidth, innerHeight)
       /\ isMaximized' = TRUE
       /\ UNCHANGED <<isDragging, isResizing, dragStart, resizeStart>>

handleMaximize ==
  IF isMaximized
  THEN /\ position' = prevPosition
       /\ size' = prevSize
       /\ isMaximized' = FALSE
       /\ UNCHANGED <<isDragging, isResizing, dragStart, resizeStart,
                      prevPosition, prevSize>>
  ELSE /\ prevPosition' = position
       /\ prevSize' = size
       /\ position' = Point(0, 0)
       /\ size' = Size(innerWidth, innerHeight)
       /\ isMaximized' = TRUE
       /\ UNCHANGED <<isDragging, isResizing, dragStart, resizeStart>>

\* ------------------------------------------------------------------ events
\* A press lands on an element of the window, so the pointer is inside the
\* rendered rectangle (the whole viewport when the window is maximized).
OnWindow(cx, cy) ==
  \/ isMaximized
  \/ /\ position.x <= cx /\ cx <= position.x + size.width
     /\ position.y <= cy /\ cy <= position.y + size.height

\* The viewport leaves less room than the minimum: to the right of or below
\* the window's corner (a resize), or in all (a maximize).
ResizeCapBelowMin ==
  \/ innerWidth - position.x < minWidth
  \/ innerHeight - position.y < minHeight
ViewportBelowMin ==
  \/ innerWidth < minWidth
  \/ innerHeight < minHeight

\* mousedown on the header (any button: the handler reads no button).
HeaderPress ==
  /\ mounted
  /\ \E cx \in Coord, cy \in Coord :
       /\ OnWindow(cx, cy)
       /\ handleHeaderMouseDown(cx, cy)
       /\ Record("header", cx, cy, HeaderAccepts)
       /\ session' = IF HeaderAccepts THEN Began("drag", cx, cy)
                     ELSE Interrupted
  /\ subscribed' = Resubscribed
  /\ preMax' = NoGeom
  /\ UNCHANGED <<config, viewport, mounted, capped>>

\* mousedown on the resize handle.
ResizePress ==
  /\ mounted
  /\ \E cx \in Coord, cy \in Coord :
       /\ OnWindow(cx, cy)
       /\ handleResizeMouseDown(cx, cy)
       /\ Record("resize", cx, cy, ResizeAccepts)
       /\ session' = IF ResizeAccepts /\ ~isDragging
                     THEN Began("resize", cx, cy)
                     ELSE Interrupted
  /\ subscribed' = Resubscribed
  /\ preMax' = NoGeom
  /\ UNCHANGED <<config, viewport, mounted, notes, capped>>

\* mousemove on the document: reaches handleMouseMove while subscribed.  A
\* listener left behind by an unmounted component is never re-subscribed.
PointerMove ==
  /\ \E cx \in Coord, cy \in Coord :
       /\ IF listening THEN handleMouseMove(cx, cy) ELSE UNCHANGED prog
       /\ Record("move", cx, cy, listening)
  /\ session' = IF listening THEN Moved ELSE session
  /\ subscribed' = (mounted /\ Resubscribed)
  /\ preMax' = NoGeom
  /\ capped' = (capped \/ (listening /\ ~isDragging /\ isResizing /\ ResizeCapBelowMin))
  /\ UNCHANGED <<config, viewport, mounted, notes>>

\* mouseup on the document: reaches handleMouseUp while subscribed.
PointerUp ==
  /\ IF listening THEN handleMouseUp ELSE UNCHANGED <<prog, notes>>
  /\ Record("up", 0, 0, listening)
  /\ session' = IF listening THEN NoSession ELSE Interrupted
  /\ subscribed' = (mounted /\ Resubscribed)
  /\ preMax' = NoGeom
  /\ UNCHANGED <<config, viewport, mounted, capped>>

\* click on the maximize / restore button (mouse or keyboard activation).
MaximizeClick ==
  /\ mounted
  /\ handleMaximize
  /\ Record("max", 0, 0, TRUE)
  /\ session' = Interrupted
  /\ subscribed' = Resubscribed
  /\ preMax' = IF isMaximized THEN preMax
               ELSE [set |-> TRUE, position |-> position, size |-> size]
  /\ capped' = (capped \/ (~isMaximized /\ ViewportBelowMin))
  /\ UNCHANGED <<config, viewport, mounted, notes>>

\* The browser window is resized: innerWidth / innerHeight change.
ViewportResize ==
  /\ \E w \in Extent, h \in Extent :
       /\ <<w, h>> # <<innerWidth, innerHeight>>
       /\ innerWidth' = w
       /\ innerHeight' = h
  /\ Record("viewport", 0, 0, TRUE)
  /\ session' = Interrupted
  /\ preMax' = NoGeom
  /\ UNCHANGED <<prog, config, mounted, subscribed, notes, capped>>

\* The component unmounts: the effect's cleanup removes the listeners.
Unmount ==
  /\ mounted
  /\ mounted' = FALSE
  /\ subscribed' = AfterCleanup
  /\ Record("unmount", 0, 0, TRUE)
  /\ session' = Interrupted
  /\ preMax' = NoGeom
  /\ UNCHANGED <<prog, config, viewport, notes, capped>>

Next ==
  \/ HeaderPress
  \/ ResizePress
  \/ PointerMove
  \/ PointerUp
  \/ MaximizeClick
  \/ ViewportResize
  \/ Unmount

Spec == Init /\ [][Next]_vars

\* ------------------------------------------------------------ every press
\* ------------------------------------------------ is followed by a release
\* The release of a session that is still under way when the run has used
\* up its events: the same mouseup listener, delivered once more.
FinalRelease ==
  /\ steps = MaxSteps
  /\ listening
  /\ handleMouseUp
  /\ last' = Event("up", 0, 0, TRUE)
  /\ session' = NoSession
  /\ subscribed' = (mounted /\ Resubscribed)
  /\ preMax' = NoGeom
  /\ UNCHANGED <<config, viewport, mounted, capped, steps>>

\* A release that reaches the mouseup listener.
Release == listening /\ (PointerUp \/ FinalRelease)

LiveNext ==
  \/ Next
  \/ FinalRelease

\* The pointer that pressed is released in the end: a release that stays
\* deliverable is delivered.
LiveSpec == Init /\ [][LiveNext]_vars /\ WF_vars(Release)

\* ================================================================== claims
\* The event delivered last was a pointer move that ran the drag branch /
\* the resize branch of handleMouseMove.
DragMoved == last.op = "move" /\ last.acted /\ last.mode \in {"Dragging", "Both"}
ResizeMoved == last.op = "move" /\ last.acted /\ last.mode = "Resizing"

\* C1 (as stated): Dragging and Resizing are never both active, and a press
\* on the resize handle during a drag, or on the header during a resize,
\* changes nothing.
C1_ModeExclusivity ==
  [][ /\ ~(isDragging' /\ isResizing')
      /\ (ResizePress /\ isDragging => UNCHANGED <<prog, notes>>)
      /\ (HeaderPress /\ isResizing => UNCHANGED <<prog, notes>>) ]_vars

\* C2 (as stated): a maximized window is in mode Idle.
C2_MaximizedIsIdle == isMaximized => Mode = "Idle"

\* C3 (as stated): after a pointer move processed while Dragging, position.x
\* is in [0, max(0, innerWidth - size.width)] and position.y is in
\* [0, max(0, innerHeight - size.height)].
C3_DragClamp ==
  (last.op = "move" /\ last.acted /\ last.mode = "Dragging") =>
    /\ position.x \in 0..Max(0, innerWidth - size.width)
    /\ position.y \in 0..Max(0, innerHeight - size.height)

\* C4: after a pointer move processed while Resizing, each extent is at least
\* its minimum, unless the viewport leaves less than the minimum beyond the
\* window's corner, and then the extent is exactly what the viewport leaves.
C4_ResizeMinSize ==
  ResizeMoved =>
    /\ IF innerWidth - position.x < minWidth
       THEN size.width = innerWidth - position.x
       ELSE size.width >= minWidth
    /\ IF innerHeight - position.y < minHeight
       THEN size.height = innerHeight - position.y
       ELSE size.height >= minHeight

\* C4's case: a resize move left the width at the viewport cap, below the
\* minimum, and the height at or above its minimum.
C4_Witness ==
  /\ ResizeMoved
  /\ innerWidth - position.x < minWidth
  /\ size.width = innerWidth - position.x
  /\ size.height >= minHeight

\* C5: a maximize followed at once by a restore (no event, so no viewport
\* change, in between) gives back the position and size held before the
\* maximize, and leaves the window not maximized.
C5_MaximizeRoundTrip ==
  (last.op = "max" /\ last.maxd /\ preMax.set) =>
    /\ position = preMax.position
    /\ size = preMax.size
    /\ ~isMaximized

\* C5's case: the round trip of a window that had been dragged off its
\* initial position.
C5_Witness ==
  /\ last.op = "max" /\ last.maxd /\ preMax.set
  /\ preMax.position # Point(1, 1)
  /\ preMax.position # Point(0, 0)
  /\ position = preMax.position

\* C6 (as stated): onDragStart calls exceed onDragEnd calls by one while
\* dragging and by none otherwise.
C6_NotificationPairing ==
  startCount - endCount = IF isDragging THEN 1 ELSE 0

\* C7: a release delivered right after a release changes neither the state
\* nor the number of notifications.
C7_IdempotentRelease ==
  [][(PointerUp /\ last.op = "up") => UNCHANGED <<prog, notes>>]_vars

\* C7's case: two releases in a row, the first of which ended a drag.
C7_Witness ==
  /\ last.op = "up" /\ last.afterUp
  /\ endCount = 1
  /\ Mode = "Idle"

\* C8: a press on the header or on the resize handle of a maximized window
\* changes no state and calls no notification.
C8_RejectedWhileMaximized ==
  [][((HeaderPress \/ ResizePress) /\ isMaximized) =>
       UNCHANGED <<prog, notes>>]_vars

\* C8's case: a press was delivered to a maximized window and went no
\* further than the early return.
C8_Witness ==
  /\ last.op \in {"header", "resize"}
  /\ last.maxd /\ ~last.acted
  /\ isMaximized

\* C9 (as stated): the size is at least the minimum in every reachable state.
C9_SizeAtLeastMin == size.width >= minWidth /\ size.height >= minHeight

\* C9 (amended): the size is at least the minimum in every reachable state
\* before which no resize move met a viewport leaving less than the minimum
\* beyond the window's corner, and no maximize met a viewport smaller than
\* the minimum.
C9_SizeAtLeastMinUnlessCapped ==
  ~capped => (size.width >= minWidth /\ size.height >= minHeight)

\* C9's case: a resize move asked for less than the minimum width, no
\* viewport cap interfered, and the width is the minimum.
C9_Witness ==
  /\ ~capped
  /\ ResizeMoved
  /\ resizeStart.width + (last.ptr.x - resizeStart.x) < minWidth
  /\ size.width = minWidth

\* C10: the position is never negative.
C10_PositionNonNegative == position.x >= 0 /\ position.y >= 0

\* C10's case: a drag move whose candidate x was negative left x at 0.
C10_Witness ==
  /\ DragMoved
  /\ last.ptr.x - dragStart.x < 0
  /\ position.x = 0

\* C11: the document listeners are held exactly while the component is
\* mounted and a drag or a resize is active, and once the component is
\* unmounted (also in the middle of a drag or resize) no event changes the
\* state or calls a notification.
C11_ListenerLifecycle ==
  /\ [](subscribed <=> (mounted /\ (isDragging \/ isResizing)))
  /\ [][~mounted => UNCHANGED <<prog, notes>>]_vars

\* C11's case: the component was unmounted in the middle of a drag, and a
\* pointer event delivered after that found no listener.
C11_Witness ==
  /\ ~mounted /\ isDragging /\ ~subscribed
  /\ last.op \in {"move", "up"} /\ ~last.acted

\* C12: a pointer move delivered while the mode is Idle, or right after a
\* release, changes no state and calls no notification.
C12_IdleMovesAbsorbed ==
  [][(PointerMove /\ (Mode = "Idle" \/ last.op = "up")) =>
       UNCHANGED <<prog, notes>>]_vars

\* C12's case: a drag moved the window and was released, and the pointer
\* move delivered next found the mode Idle and no listener.
C12_Witness ==
  /\ last.op = "move" /\ last.afterUp /\ ~last.acted
  /\ last.mode = "Idle"
  /\ mounted
  /\ endCount = 1
  /\ position # Point(1, 1)

\* C13: a maximize click on a window that is not maximized saves the position
\* and size held before the click, puts the window at (0, 0) with the size of
\* the viewport, and sets isMaximized.
C13_MaximizeTransition ==
  (last.op = "max" /\ ~last.maxd) =>
    /\ preMax.set
    /\ prevPosition = preMax.position
    /\ prevSize = preMax.size
    /\ position = Point(0, 0)
    /\ size = Size(innerWidth, innerHeight)
    /\ isMaximized

\* C13's case: a maximize of a window that had been dragged away from its
\* initial position, under a viewport that is not square.
C13_Witness ==
  /\ last.op = "max" /\ ~last.maxd
  /\ prevPosition # Point(1, 1)
  /\ innerWidth # innerHeight
  /\ size = Size(innerWidth, innerHeight)

\* C14: a click on a maximized window puts back the saved position and size
\* as they are, whatever the viewport is then, and clears isMaximized.
C14_RestoreUnclamped ==
  (last.op = "max" /\ last.maxd) =>
    /\ position = prevPosition
    /\ size = prevSize
    /\ ~isMaximized

\* C14's case: the viewport shrank while the window was maximized, and the
\* restored rectangle reaches beyond it.
C14_Witness ==
  /\ last.op = "max" /\ last.maxd
  /\ position = prevPosition /\ size = prevSize
  /\ position.x + size.width > innerWidth

\* C15: the saved position and size change only in a maximize click on a
\* window that is not maximized.
C15_SnapshotFrame ==
  [][(prevPosition' # prevPosition \/ prevSize' # prevSize) =>
       (MaximizeClick /\ ~isMaximized)]_vars

\* C15's case: a drag moved the window and was released, and the snapshot
\* still is the initial geometry.
C15_Witness ==
  /\ last.op = "up" /\ last.acted /\ last.mode = "Dragging"
  /\ position # Point(1, 1)
  /\ prevPosition = Point(1, 1)
  /\ prevSize = Size(MinDim, MinDim)

\* C16: a resize session (resize press, moves, release, with no drag under
\* way) calls neither onDragStart nor onDragEnd.
C16_ResizeNeverNotifies ==
  [][(~isDragging /\ (ResizePress \/ PointerMove \/ PointerUp)) =>
       UNCHANGED notes]_vars

\* C16's case: a resize that changed the size has been released, and no
\* notification was ever made.
C16_Witness ==
  /\ last.op = "up" /\ last.acted /\ last.mode = "Resizing"
  /\ size # Size(MinDim, MinDim)
  /\ startCount = 0 /\ endCount = 0

\* C17: a move in Dragging puts each coordinate of the position at
\* max(0, min(pointer - anchor, viewport extent - window extent)), which is 0
\* when that upper bound is negative; anchor (50, 50), size (400, 600),
\* viewport (1280, 800), pointer (900, 750) gives (850, 200).
C17_DragResult ==
  /\ Max(0, Min(900 - 50, 1280 - 400)) = 850
  /\ Max(0, Min(750 - 50, 800 - 600)) = 200
  /\ (last.op = "move" /\ last.acted /\ last.mode = "Dragging") =>
       /\ position.x = Max(0, Min(last.ptr.x - dragStart.x,
                                  innerWidth - size.width))
       /\ position.y = Max(0, Min(last.ptr.y - dragStart.y,
                                  innerHeight - size.height))

\* C18: a move in Resizing puts each extent of the size at
\* min(max(minimum, anchor extent + (pointer - anchor origin)),
\*     viewport extent - position); anchor size (400, 600) at pointer
\* (500, 700), position (100, 100), viewport (1280, 800), move to (520, 650)
\* gives (420, 550).
C18_ResizeResult ==
  /\ Min(Max(300, 400 + (520 - 500)), 1280 - 100) = 420
  /\ Min(Max(400, 600 + (650 - 700)), 800 - 100) = 550
  /\ ResizeMoved =>
       /\ size.width = Min(Max(minWidth, resizeStart.width
                                           + (last.ptr.x - resizeStart.x)),
                           innerWidth - position.x)
       /\ size.height = Min(Max(minHeight, resizeStart.height
                                             + (last.ptr.y - resizeStart.y)),
                            innerHeight - position.y)

\* C18's case: the pointer asks for more height than the viewport leaves
\* below the window's top edge, and the cap decides the height.
C18_Witness ==
  /\ ResizeMoved
  /\ resizeStart.height + (last.ptr.y - resizeStart.y)
       > innerHeight - position.y
  /\ size.height = innerHeight - position.y

\* C19: a pointer move changes neither the flags, the anchors, the snapshot
\* nor the notification counts; while dragging it leaves the size alone, and
\* otherwise it leaves the position alone, so no move changes both.
C19_MoveFrame ==
  [][PointerMove =>
       /\ UNCHANGED <<isDragging, isResizing, isMaximized, dragStart,
                      resizeStart, prevPosition, prevSize, notes>>
       /\ isDragging => UNCHANGED size
       /\ ~isDragging => UNCHANGED position
       /\ (position' = position \/ size' = size)]_vars

\* C19's case: a drag move has changed the position and the size is the one
\* the window was built with.
C19_Witness ==
  /\ DragMoved
  /\ position # Point(1, 1)
  /\ size = Size(MinDim, MinDim)

\* C21: in every reachable state every handler has an outcome for every
\* pointer position (a press: every position on the window) and every
\* viewport, also a viewport smaller than the window or than the minimum
\* size, and the outcome is a state: positions, sizes and anchors are
\* numbers and the flags are booleans.
C21_NeverFails ==
  [](/\ \A cx \in Coord, cy \in Coord :
          /\ OnWindow(cx, cy) => ENABLED handleHeaderMouseDown(cx, cy)
          /\ OnWindow(cx, cy) => ENABLED handleResizeMouseDown(cx, cy)
          /\ ENABLED handleMouseMove(cx, cy)
     /\ ENABLED handleMouseUp
     /\ ENABLED handleMaximize
     /\ position.x \in Int /\ position.y \in Int
     /\ size.width \in Int /\ size.height \in Int
     /\ dragStart.x \in Int /\ dragStart.y \in Int
     /\ resizeStart.x \in Int /\ resizeStart.y \in Int
     /\ resizeStart.width \in Int /\ resizeStart.height \in Int
     /\ prevPosition.x \in Int /\ prevPosition.y \in Int
     /\ prevSize.width \in Int /\ prevSize.height \in Int
     /\ {isDragging, isResizing, isMaximized} \subseteq BOOLEAN)

\* C21's case: a drag move was processed for a window wider than the
\* viewport, and the handlers still are defined.
C21_Witness ==
  /\ DragMoved
  /\ innerWidth < size.width
  /\ position.x = 0

\* C22: after a header press at pointer q on a window at origin o, a drag
\* move at pointer p puts each coordinate of the position at o + (p - q)
\* whenever that value lies between 0 and the viewport extent minus the
\* window extent; a move at p = q leaves such a window at o.
C22_GrabPointFixed ==
  DragMoved =>
    LET cx == session.position.x + (last.ptr.x - session.ptr.x)
        cy == session.position.y + (last.ptr.y - session.ptr.y)
    IN  /\ session.kind = "drag"
        /\ (0 <= cx /\ cx <= innerWidth - size.width) => position.x = cx
        /\ (0 <= cy /\ cy <= innerHeight - size.height) => position.y = cy

\* C22's case: the pointer moved away from where it pressed the header, the
\* window followed by the same offset, and neither clamp bound was met.
C22_Witness ==
  /\ DragMoved
  /\ session.kind = "drag"
  /\ last.ptr # session.ptr
  /\ session.position # Point(0, 0)
  /\ position.x = session.position.x + (last.ptr.x - session.ptr.x)
  /\ position.y = session.position.y + (last.ptr.y - session.ptr.y)
  /\ position.y <= innerHeight - size.height
  /\ position.x <= innerWidth - size.width

\* C23: after a pointer move processed while Resizing the window does not
\* reach beyond the viewport: position.x + size.width <= innerWidth and
\* position.y + size.height <= innerHeight.
C23_ResizeWithinViewport ==
  ResizeMoved =>
    /\ position.x + size.width <= innerWidth
    /\ position.y + size.height <= innerHeight

\* C23's case: the pointer asked for more width than the viewport leaves to
\* the right of a window that is not at the left edge, and the window ends
\* at the viewport's right edge.
C23_Witness ==
  /\ ResizeMoved
  /\ position.x > 0
  /\ resizeStart.width + (last.ptr.x - resizeStart.x)
       > innerWidth - position.x
  /\ position.x + size.width = innerWidth

\* C24: when no component is unmounted in the middle of a session (each
\* press is released while the component is mounted), every Dragging or
\* Resizing state is followed by an Idle state and every onDragStart by an
\* onDragEnd; and one release that reaches the listener leaves the mode Idle.
C24_SessionsEnd ==
  /\ [][(listening /\ (PointerUp \/ FinalRelease)) => Mode' = "Idle"]_vars
  /\ ([](~mounted => Mode = "Idle")) => ((Mode # "Idle") ~> (Mode = "Idle"))
  /\ ([](~mounted => Mode = "Idle")) =>
       ((last.op = "header" /\ last.acted) ~>
          (last.op = "up" /\ last.acted /\ last.mode \in {"Dragging", "Both"}))

\* C24's case: one release ended a drag and a resize that were both under
\* way, after the run had used up its events.
C24_Witness ==
  /\ last.op = "up" /\ last.acted /\ last.mode = "Both"
  /\ mounted
  /\ Mode = "Idle"
  /\ startCount = 1 /\ endCount = 1

\* C25 (as stated): while the window stays maximized no press, pointer move
\* or release changes its position or its size, also when a drag or a
\* resize was under way at the maximize.
C25_FrozenWhileMaximized ==
  [][(isMaximized /\ (HeaderPress \/ ResizePress \/ PointerMove \/ PointerUp))
       => UNCHANGED <<position, size>>]_vars

\* C26: in a session of a press that met the mode Idle followed by pointer
\* moves only, the geometry after the moves is what the last move alone
\* gives from the state at the press: it is computed from the pointer of the
\* press, the position and size at the press and the pointer of the last
\* move.
C26_MovesNotCumulative ==
  (last.op = "move" /\ last.acted /\ session.pure) =>
    IF session.kind = "drag"
    THEN /\ size = session.size
         /\ position.x =
              Max(0, Min(last.ptr.x - (session.ptr.x - session.position.x),
                         innerWidth - session.size.width))
         /\ position.y =
              Max(0, Min(last.ptr.y - (session.ptr.y - session.position.y),
                         innerHeight - session.size.height))
    ELSE /\ session.kind = "resize"
         /\ position = session.position
         /\ size.width =
              Min(Max(minWidth,
                      session.size.width + (last.ptr.x - session.ptr.x)),
                  innerWidth - session.position.x)
         /\ size.height =
              Min(Max(minHeight,
                      session.size.height + (last.ptr.y - session.ptr.y)),
                  innerHeight - session.position.y)

\* C26's case: the second move of a drag, which leaves the window away from
\* where the press met it.
C26_Witness ==
  /\ last.op = "move" /\ last.acted
  /\ session.pure /\ session.kind = "drag" /\ session.moves = 2
  /\ position # session.position
  /\ position.x = last.ptr.x - (session.ptr.x - session.position.x)

\* C27: onDragEnd has never been called more often than onDragStart, and it
\* is called only by a release that meets an active drag.
C27_NoUnmatchedEnd ==
  /\ [](endCount <= startCount)
  /\ [][endCount' # endCount =>
          (isDragging /\ listening /\ ~isDragging'
             /\ endCount' = endCount + 1 /\ last'.op = "up")]_vars

\* C27's case: two header presses, then one release: two onDragStart calls
\* and a single onDragEnd.
C27_Witness ==
  /\ last.op = "up" /\ last.acted /\ last.mode = "Dragging"
  /\ startCount = 2
  /\ endCount = 1

\* C28: a release that reaches the listener clears both flags, and no
\* release changes the position, the size, isMaximized, the snapshot or an
\* anchor.
C28_ReleaseFrame ==
  [][last'.op = "up" =>
       /\ UNCHANGED <<position, size, isMaximized, prevPosition, prevSize,
                      dragStart, resizeStart>>
       /\ listening => (~isDragging' /\ ~isResizing')]_vars

\* C28's case: a resize was released on a window maximized in mid-resize:
\* the window stays maximized and the anchor of the resize stays as pressed.
C28_Witness ==
  /\ last.op = "up" /\ last.acted /\ last.mode = "Resizing"
  /\ isMaximized
  /\ resizeStart.width = MinDim
  /\ size = Size(innerWidth, innerHeight)
  /\ Mode = "Idle"

====
